---- MODULE Spec2Model ----
(***************************************************************************)
(* State-machine model of the Data-Analysis-Agent web client.              *)
(*                                                                         *)
(* Part 1: the authentication facade (AuthProvider in services/api.ts)     *)
(* over the browser's localStorage: keys 'users' (credential store) and    *)
(* 'user' (persisted session entry).                                       *)
(* Part 2: the route guards of App (ProtectedRoute, PublicRoute).          *)
(* Part 3: the conversation controller of the Chat and AgentPage           *)
(* components and the requests it sends through services/api.ts.           *)
(***************************************************************************)
EXTENDS Naturals, Sequences, FiniteSets, TLC

(***************************************************************************)
(* Bounds of the model.                                                    *)
(***************************************************************************)
\* signup is explored while the credential store holds fewer records
MaxUsers == 2

\* Input alphabets of the form fields.  Emails and passwords contain pairs
\* that differ in letter case only.
Names == {"Bo B"}
Emails == {"ann@x.io", "Ann@x.io", "bob@x.io"}
Passwords == {"secret", "Secret"}

(***************************************************************************)
(* JavaScript values.  An object is an ordered list of <<key, value>>      *)
(* pairs with distinct keys (property insertion order); a missing          *)
(* property reads as undefined.  A variable holding "null or an object"    *)
(* is a tagged value.                                                      *)
(***************************************************************************)
Undefined == "undefined"
Null == [kind |-> "null", body |-> <<>>]
Obj(o) == [kind |-> "object", body |-> o]

HasKey(o, k) == \E i \in DOMAIN o : o[i][1] = k
Get(o, k) == IF HasKey(o, k) THEN o[CHOOSE i \in DOMAIN o : o[i][1] = k][2] ELSE Undefined

\* !!v for v null or an object
Truthy(v) == v.kind # "null"

(***************************************************************************)
(* localStorage items.  getItem yields null for a missing key, else the    *)
(* stored string.  A string is the empty string, a JSON text (held as the  *)
(* list of members it spells, duplicates and all) or text that JSON.parse  *)
(* rejects.                                                                *)
(***************************************************************************)
NoItem == [kind |-> "absent", body |-> <<>>]
EmptyString == [kind |-> "empty", body |-> <<>>]
Malformed == [kind |-> "malformed", body |-> <<>>]
JSONText(b) == [kind |-> "json", body |-> b]

\* a string is truthy unless empty; null is falsy
ItemTruthy(item) == item.kind \in {"json", "malformed"}

\* JSON.parse raises SyntaxError on these
ParseThrows(item) == item.kind \in {"malformed", "empty"}

\* JSON.stringify of an object: members in property order, a property
\* whose value is undefined is left out
JSONstringifyObject(o) == SelectSeq(o, LAMBDA kv : kv[2] # Undefined)
JSONstringifyArray(a) == [i \in DOMAIN a |-> JSONstringifyObject(a[i])]

\* JSON.parse of an object text: a repeated member name keeps the place of
\* its first occurrence and the value of its last
RECURSIVE DropKey(_, _)
DropKey(t, k) ==
    IF t = <<>> THEN <<>>
    ELSE IF Head(t)[1] = k THEN DropKey(Tail(t), k)
    ELSE <<Head(t)>> \o DropKey(Tail(t), k)
LastValue(t, k) == t[CHOOSE i \in DOMAIN t : t[i][1] = k /\ \A j \in DOMAIN t : j > i => t[j][1] # k][2]
RECURSIVE JSONparseObject(_)
JSONparseObject(t) ==
    IF t = <<>> THEN <<>>
    ELSE <<<<Head(t)[1], LastValue(t, Head(t)[1])>>>> \o JSONparseObject(DropKey(Tail(t), Head(t)[1]))
JSONparseArray(t) == [i \in DOMAIN t |-> JSONparseObject(t[i])]

(***************************************************************************)
(* State.                                                                  *)
(***************************************************************************)
VARIABLES
    localStorage,   \* [users |-> item, user |-> item]
    user,           \* React state of AuthProvider: Null or Obj(o)
    pc,             \* AuthProvider: "mounted" (rendered, effect pending),
                    \* "ready" (effect has run), "crashed" (effect threw)
    last,           \* the last call made on the facade and how it ended
    path,           \* router location
    view,           \* element the route of path rendered to at the last render
    messages,       \* conversation page: useState<Message[]>
    input,          \* conversation page: textarea value
    loading,        \* conversation page: busy flag
    uploadedFile,   \* conversation page: staged file, or NoFile
    latest,         \* conversation page: [pdf, ppt, dashboard |-> path or NoPath]
    showDashboard,  \* Chat: dashboard preview modal open
    selectedAgent,  \* Chat: agent <select>; AgentPage: its agentType prop
    inflight,       \* handleSendMessage invocations suspended at their await
    event           \* the last handler of the conversation page that ran

authVars == <<localStorage, user, pc, last>>
routeVars == <<path, view>>
chatVars == <<messages, input, loading, uploadedFile, latest, showDashboard, selectedAgent, inflight, event>>
vars == <<localStorage, user, pc, last, path, view, messages, input, loading, uploadedFile,
          latest, showDashboard, selectedAgent, inflight, event>>

isAuthenticated == Truthy(user)

Call(op, name, email, password, result) ==
    [op |-> op, name |-> name, email |-> email, password |-> password, result |-> result]
NoArg == ""

(***************************************************************************)
(* AuthProvider                                                            *)
(***************************************************************************)
\* localStorage.getItem('users') || '[]'
UsersText == IF ItemTruthy(localStorage.users) THEN localStorage.users ELSE JSONText(<<>>)

\* letter-case folding on the strings of the model
Lower(s) == IF s = "Ann@x.io" THEN "ann@x.io" ELSE IF s = "Secret" THEN "secret" ELSE s

\* the first element of users, in array order, whose index is in hits
FirstHit(users, hits) == IF hits = {} THEN Null ELSE Obj(users[CHOOSE i \in hits : \A j \in hits : i <= j])

\* variant: the comparison folds letter case
FindByCredentialsIgnoreCase(users, email, password) ==
    FirstHit(users, {i \in DOMAIN users : Lower(Get(users[i], "email")) = Lower(email)
                                           /\ Lower(Get(users[i], "password")) = Lower(password)})

\* variant: the password is not compared
FindByEmailOnly(users, email, password) ==
    FirstHit(users, {i \in DOMAIN users : Get(users[i], "email") = email})

\* users.find(u => u.email === email && u.password === password)
FindByCredentials(users, email, password) ==
    FirstHit(users, {i \in DOMAIN users : Get(users[i], "email") = email /\ Get(users[i], "password") = password})

\* variant: the duplicate test reads the wrong field
EmailExistsWrongField(users, email) == \E i \in DOMAIN users : Get(users[i], "name") = email

\* variant: the new email is folded to lower case, the stored ones are not
EmailExistsLowered(users, email) == \E i \in DOMAIN users : Get(users[i], "email") = Lower(email)

\* users.find(u => u.email === email), used as a condition
EmailExists(users, email) == \E i \in DOMAIN users : Get(users[i], "email") = email

\* variant: the whole credential record becomes the session user
UserDataWholeRecord(rec) == rec

\* const userData: User = { id, name, email, avatar } of a credential record
UserData(rec) ==
    << <<"id", Get(rec, "id")>>, <<"name", Get(rec, "name")>>,
       <<"email", Get(rec, "email")>>, <<"avatar", Get(rec, "avatar")>> >>

\* encodeURIComponent on the names of the model
encodeURIComponent(name) == IF name = "Bo B" THEN "Bo%20B" ELSE name

\* variant: name and email change places
NewUserSwapped(id, name, email, password) ==
    << <<"id", id>>, <<"name", email>>, <<"email", name>>, <<"password", password>>,
       <<"avatar", "https://api.dicebear.com/7.x/initials/svg?seed=" \o encodeURIComponent(name)>> >>

\* the credential record signup builds
NewUser(id, name, email, password) ==
    << <<"id", id>>, <<"name", name>>, <<"email", email>>, <<"password", password>>,
       <<"avatar", "https://api.dicebear.com/7.x/initials/svg?seed=" \o encodeURIComponent(name)>> >>

\* the ids crypto.randomUUID() may return: any not yet in the store
UsedIds(users) == {Get(users[i], "id") : i \in DOMAIN users}
UUIDs == {"uuid-" \o ToString(n) : n \in 1..MaxUsers}

\* variant: the effect reads the entry and does not set the state
HydrateNoRestore ==
    /\ pc = "mounted"
    /\ pc' = IF ItemTruthy(localStorage.user) /\ ParseThrows(localStorage.user) THEN "crashed" ELSE "ready"
    /\ user' = user
    /\ last' = Call("hydrate", NoArg, NoArg, NoArg, IF pc' = "crashed" THEN "threw" ELSE "done")
    /\ UNCHANGED localStorage

\* useEffect(() => {...}, []): runs once after the provider has mounted
Hydrate ==
    /\ pc = "mounted"
    /\ LET storedUser == localStorage.user IN
       IF ~ItemTruthy(storedUser)
       THEN /\ pc' = "ready"
            /\ user' = user
            /\ last' = Call("hydrate", NoArg, NoArg, NoArg, "done")
       ELSE IF ParseThrows(storedUser)
       THEN /\ pc' = "crashed"
            /\ user' = user
            /\ last' = Call("hydrate", NoArg, NoArg, NoArg, "threw")
       ELSE /\ pc' = "ready"
            /\ user' = Obj(JSONparseObject(storedUser.body))
            /\ last' = Call("hydrate", NoArg, NoArg, NoArg, "done")
    /\ UNCHANGED localStorage

login(email, password) ==
    /\ pc = "ready"
    /\ IF ParseThrows(UsersText)
       THEN /\ last' = Call("login", NoArg, email, password, "threw")
            /\ UNCHANGED <<localStorage, user>>
       ELSE LET users == JSONparseArray(UsersText.body)
                foundUser == FindByCredentials(users, email, password)
            IN  IF Truthy(foundUser)
                THEN LET userData == UserData(foundUser.body) IN
                     /\ user' = Obj(userData)
                     /\ localStorage' = [localStorage EXCEPT !.user = JSONText(JSONstringifyObject(userData))]
                     /\ last' = Call("login", NoArg, email, password, "true")
                ELSE /\ last' = Call("login", NoArg, email, password, "false")
                     /\ UNCHANGED <<localStorage, user>>
    /\ UNCHANGED pc

signup(name, email, password) ==
    /\ pc = "ready"
    /\ IF ParseThrows(UsersText)
       THEN /\ last' = Call("signup", name, email, password, "threw")
            /\ UNCHANGED <<localStorage, user>>
       ELSE LET users == JSONparseArray(UsersText.body) IN
            IF EmailExists(users, email)
            THEN /\ last' = Call("signup", name, email, password, "false")
                 /\ UNCHANGED <<localStorage, user>>
            ELSE /\ Len(users) < MaxUsers
                 /\ \E id \in UUIDs \ UsedIds(users) :
                      LET newUser == NewUser(id, name, email, password)
                          pushed == Append(users, newUser)
                          userData == UserData(newUser)
                      IN  /\ user' = Obj(userData)
                          /\ localStorage' = [users |-> JSONText(JSONstringifyArray(pushed)),
                                              user |-> JSONText(JSONstringifyObject(userData))]
                          /\ last' = Call("signup", name, email, password, "true")
    /\ UNCHANGED pc

\* variant: the credential store is removed along with the session entry
logoutDropsUsers ==
    /\ pc = "ready"
    /\ user' = Null
    /\ localStorage' = [users |-> NoItem, user |-> NoItem]
    /\ last' = Call("logout", NoArg, NoArg, NoArg, "done")
    /\ UNCHANGED pc

\* variant: the state is cleared and the stored entry is kept
logoutKeepsEntry ==
    /\ pc = "ready"
    /\ user' = Null
    /\ last' = Call("logout", NoArg, NoArg, NoArg, "done")
    /\ UNCHANGED <<localStorage, pc>>

logout ==
    /\ pc = "ready"
    /\ user' = Null
    /\ localStorage' = [localStorage EXCEPT !.user = NoItem]
    /\ last' = Call("logout", NoArg, NoArg, NoArg, "done")
    /\ UNCHANGED pc

\* a page load: a fresh AuthProvider over the same localStorage
Reload ==
    /\ user' = Null
    /\ pc' = "mounted"
    /\ last' = Call("reload", NoArg, NoArg, NoArg, "done")
    /\ UNCHANGED localStorage

Login == \E email \in Emails, password \in Passwords : login(email, password)
Signup == \E name \in Names, email \in Emails, password \in Passwords : signup(name, email, password)

(***************************************************************************)
(* The facade alone: no router and no page is mounted under it.            *)
(***************************************************************************)
NoView == [kind |-> "none", name |-> ""]
NoFile == ""
NoPath == "null"
NoEvent == [handler |-> "none", sent |-> FALSE]

NothingMounted ==
    /\ path = ""
    /\ view = NoView

NoConversation ==
    /\ messages = <<>>
    /\ input = ""
    /\ loading = FALSE
    /\ uploadedFile = NoFile
    /\ latest = [pdf |-> NoPath, ppt |-> NoPath, dashboard |-> NoPath]
    /\ showDashboard = FALSE
    /\ selectedAgent = "auto"
    /\ inflight = <<>>
    /\ event = NoEvent

FacadeOnly(A) == A /\ UNCHANGED <<routeVars, chatVars>>

Next ==
    \/ FacadeOnly(Hydrate)
    \/ FacadeOnly(Login)
    \/ FacadeOnly(Signup)
    \/ FacadeOnly(logout)
    \/ FacadeOnly(Reload)

\* first visit: nothing stored
Init ==
    /\ localStorage = [users |-> NoItem, user |-> NoItem]
    /\ user = Null
    /\ pc = "mounted"
    /\ last = Call("reload", NoArg, NoArg, NoArg, "done")
    /\ NothingMounted
    /\ NoConversation

Spec == Init /\ [][Next]_vars

(***************************************************************************)
(* The same facade over storage it did not write itself: the two keys      *)
(* start with any of a few contents, well formed or not.                   *)
(***************************************************************************)
SeedAnn == NewUser("uuid-1", "Bo B", "ann@x.io", "secret")
SeedBobNoAvatar ==
    << <<"id", "uuid-2">>, <<"name", "Bo B">>, <<"email", "bob@x.io">>, <<"password", "Secret">> >>

InitialUsersItems ==
    {NoItem, EmptyString, Malformed, JSONText(<<>>), JSONText(<<SeedAnn>>),
     JSONText(<<SeedBobNoAvatar, SeedAnn>>)}
InitialUserItems ==
    {NoItem, EmptyString, Malformed, JSONText(JSONstringifyObject(UserData(SeedBobNoAvatar)))}

InitStorage ==
    /\ localStorage \in [users : InitialUsersItems, user : InitialUserItems]
    /\ user = Null
    /\ pc = "mounted"
    /\ last = Call("reload", NoArg, NoArg, NoArg, "done")
    /\ NothingMounted
    /\ NoConversation

SpecStorage == InitStorage /\ [][Next]_vars

\* the effect is scheduled after the first render and always gets to run
SpecLive == Init /\ [][Next]_vars /\ WF_vars(FacadeOnly(Hydrate))

(***************************************************************************)
(* Reading the stored texts member by member, for the properties.          *)
(***************************************************************************)
Members(o) == {o[i] : i \in DOMAIN o}
StoreRecords == localStorage.users.body
StoreHolds(email, password) ==
    \E i \in DOMAIN StoreRecords :
        <<"email", email>> \in Members(StoreRecords[i]) /\ <<"password", password>> \in Members(StoreRecords[i])
StoreHasEmail(email) ==
    \E i \in DOMAIN StoreRecords : <<"email", email>> \in Members(StoreRecords[i])
MemberNames(o) == {o[i][1] : i \in DOMAIN o}
MemberValues(o) == {o[i][2] : i \in DOMAIN o}

(***************************************************************************)
(* Properties of the authentication facade.                                *)
(***************************************************************************)

\* C1: after any call of login(email, password), over any content of the
\* credential store, the call returned true if and only if the store holds
\* a record whose email and password are both exactly the arguments
\* (login leaves the store as it found it).
C1_LoginTrueIffExactMatch ==
    last.op = "login" => (last.result = "true" <=> StoreHolds(last.email, last.password))

\* a login that succeeded with the capitalised email while the store also
\* holds the same address in lower case
C1_Witness ==
    /\ last.op = "login" /\ last.result = "true" /\ last.email = "Ann@x.io"
    /\ StoreHasEmail("ann@x.io")

\* C2: a signup whose email equals the email of a stored record returns
\* false and changes neither the store, nor the session in memory, nor the
\* persisted session entry; a signup returns true only for an email the
\* store did not hold and holds afterwards, and the store never loses an
\* email, so no email is signed up twice.
C2_DuplicateSignupRejected ==
    [][ /\ (last'.op = "signup" /\ StoreHasEmail(last'.email))
           => (last'.result = "false" /\ UNCHANGED <<localStorage, user>>)
        /\ \A e \in Emails :
             (last'.op = "signup" /\ last'.result = "true" /\ last'.email = e)
             => (~StoreHasEmail(e) /\ StoreHasEmail(e)')
        /\ \A e \in Emails : StoreHasEmail(e) => StoreHasEmail(e)'
      ]_vars

\* a rejected signup while somebody else is signed in
C2_Witness ==
    /\ last.op = "signup" /\ last.result = "false"
    /\ isAuthenticated /\ <<"email", last.email>> \notin Members(user.body)

\* C3: a signup with an email the store does not hold returns true, appends
\* exactly one record carrying that name, email and password, and leaves
\* the facade authenticated as a user with that email, the same user being
\* the persisted session entry.
C3_FreshSignupAppendsAndLogsIn ==
    [][ (last'.op = "signup" /\ ~StoreHasEmail(last'.email))
        => /\ last'.result = "true"
           /\ Len(StoreRecords') = Len(StoreRecords) + 1
           /\ SubSeq(StoreRecords', 1, Len(StoreRecords)) = StoreRecords
           /\ {<<"name", last'.name>>, <<"email", last'.email>>, <<"password", last'.password>>}
                \subseteq Members(StoreRecords'[Len(StoreRecords')])
           /\ isAuthenticated'
           /\ <<"email", last'.email>> \in Members(user'.body)
           /\ localStorage'.user.kind = "json"
           /\ localStorage'.user.body = user'.body
      ]_vars

\* a signup that succeeded on a store that already held a record
C3_Witness == last.op = "signup" /\ last.result = "true" /\ Len(StoreRecords) = 2

\* C4: neither the session user in memory nor the persisted session entry
\* has a password member or holds a password as a value; every record of
\* the credential store has one.
C4_NoPasswordInSession ==
    /\ "password" \notin MemberNames(user.body) \cup MemberNames(localStorage.user.body)
    /\ Passwords \cap (MemberValues(user.body) \cup MemberValues(localStorage.user.body)) = {}
    /\ \A i \in DOMAIN StoreRecords : Get(StoreRecords[i], "password") \in Passwords

\* signed in through login, with the session persisted
C4_Witness ==
    /\ last.op = "login" /\ last.result = "true"
    /\ isAuthenticated /\ localStorage.user.kind = "json"

\* C5: starting from an empty credential store, no two records of the
\* store have the same email.
C5_EmailsUnique ==
    \A i, j \in DOMAIN StoreRecords :
        i # j => Get(StoreRecords[i], "email") # Get(StoreRecords[j], "email")

\* two records stored, and a signup with the second one's email was refused
C5_Witness ==
    /\ Len(StoreRecords) = 2
    /\ last.op = "signup" /\ last.result = "false"
    /\ <<"email", last.email>> \in Members(StoreRecords[2])

\* C6: from any state logout leaves isAuthenticated false and the persisted
\* session entry absent, does not touch the credential store, and a logout
\* right after a logout changes nothing.
C6_LogoutClearsAndIsIdempotent ==
    [][ /\ last'.op = "logout"
           => /\ ~isAuthenticated'
              /\ localStorage'.user = NoItem
              /\ localStorage'.users = localStorage.users
        /\ (last.op = "logout" /\ last'.op = "logout") => UNCHANGED vars
      ]_vars

\* logged out, with credentials in the store
C6_Witness ==
    /\ last.op = "logout" /\ ~isAuthenticated
    /\ localStorage.user = NoItem /\ Len(StoreRecords) > 0

\* C7: a login whose credentials match no record returns false and changes
\* neither the credential store, nor the session in memory, nor the
\* persisted session entry.
C7_FailedLoginNoSideEffects ==
    [][ (last'.op = "login" /\ ~StoreHolds(last'.email, last'.password))
        => (last'.result = "false" /\ UNCHANGED <<localStorage, user>>)
      ]_vars

\* a refused login while another user is the active session
C7_Witness ==
    /\ last.op = "login" /\ last.result = "false"
    /\ isAuthenticated /\ localStorage.user.kind = "json"
    /\ <<"email", last.email>> \notin Members(user.body)

\* C8: with malformed data in the credential store, login returns false
\* (it does not raise) and the session is as before.
C8_MalformedStoreLoginReturnsFalse ==
    (last.op = "login" /\ localStorage.users.kind = "malformed") => last.result = "false"

\* C9: the hydration effect ends with the facade ready, and with
\* currentUser null when the persisted entry is missing or unparseable.
C9_HydrationNeverFails ==
    last.op = "hydrate"
    => /\ pc = "ready"
       /\ localStorage.user.kind \in {"absent", "empty", "malformed"} => user = Null

\* C10: with a session persisted by login or signup, every page load is
\* followed by a state in which the facade is ready and authenticated as
\* exactly the persisted user: the mount effect sets the user to what the
\* entry holds, the entry is not changed while the page loads, and the
\* effect does run.
C10_SessionSurvivesReload ==
    /\ [][ /\ pc = "mounted" => localStorage' = localStorage
           /\ (pc = "mounted" /\ pc' = "ready" /\ localStorage.user.kind = "json")
              => (isAuthenticated' /\ user'.body = localStorage.user.body)
         ]_vars
    /\ (pc = "mounted" /\ localStorage.user.kind = "json")
       ~> (pc = "ready" /\ isAuthenticated /\ user.body = localStorage.user.body)

\* hydrated into an authenticated facade after a page load
C10_Witness ==
    /\ last.op = "hydrate" /\ pc = "ready" /\ isAuthenticated
    /\ localStorage.user = JSONText(user.body)

(***************************************************************************)
(* Part 2.  App: the routes and their guards.                              *)
(***************************************************************************)
View(name) == [kind |-> "view", name |-> name]
\* <Navigate to=... replace />
NavigateTo(target) == [kind |-> "navigate", name |-> target]
\* what is on screen once an uncaught error has unmounted the tree
Blank == [kind |-> "blank", name |-> ""]

Paths == {"/", "/signin", "/signup", "/hub", "/chat", "/analysis", "/report",
          "/presentation", "/dashboard", "/nowhere"}

\* variant: the test of the guard is inverted
ProtectedRouteInverted(children, authenticated) ==
    IF authenticated THEN NavigateTo("/signin") ELSE children

ProtectedRoute(children, authenticated) ==
    IF ~authenticated THEN NavigateTo("/signin") ELSE children

PublicRoute(children, authenticated) ==
    IF authenticated THEN NavigateTo("/hub") ELSE children

\* <Routes>: the element of the route that matches p
AppRoutes(p, authenticated) ==
    CASE p = "/" -> PublicRoute(View("Landing"), authenticated)
      [] p = "/signin" -> PublicRoute(View("SignIn"), authenticated)
      [] p = "/signup" -> PublicRoute(View("SignUp"), authenticated)
      [] p = "/hub" -> ProtectedRoute(View("MainHub"), authenticated)
      [] p = "/chat" -> ProtectedRoute(View("Chat"), authenticated)
      [] p = "/analysis" -> ProtectedRoute(View("DataAnalysisPage"), authenticated)
      [] p = "/report" -> ProtectedRoute(View("ReportPage"), authenticated)
      [] p = "/presentation" -> ProtectedRoute(View("PresentationPage"), authenticated)
      [] p = "/dashboard" -> ProtectedRoute(View("DashboardPage"), authenticated)
      [] OTHER -> NavigateTo("/")

\* the views that offer a Logout button (handleLogout)
LogoutViews == {"MainHub", "Chat", "DataAnalysisPage", "ReportPage", "PresentationPage", "DashboardPage"}

\* a page load at any URL: AuthProvider mounts with user = null and the
\* routes render once before any effect runs
RouteReload ==
    /\ Reload
    /\ path' \in Paths
    /\ view' = AppRoutes(path', Truthy(user'))
    /\ UNCHANGED chatVars

\* the mount effect of AuthProvider, and the render its setUser causes
RouteHydrate ==
    /\ Hydrate
    /\ path' = path
    /\ view' = IF pc' = "crashed" THEN Blank ELSE AppRoutes(path, Truthy(user'))
    /\ UNCHANGED chatVars

\* the effect of a rendered <Navigate>: the location changes and the
\* routes render again
Redirect ==
    /\ pc # "crashed"
    /\ view.kind = "navigate"
    /\ path' = view.name
    /\ view' = AppRoutes(path', isAuthenticated)
    /\ UNCHANGED <<authVars, chatVars>>

\* a link of the page, the address bar or the history
UserNavigate ==
    /\ pc = "ready"
    /\ view.kind = "view"
    /\ path' \in Paths
    /\ view' = AppRoutes(path', isAuthenticated)
    /\ UNCHANGED <<authVars, chatVars>>

\* the sign-in view calls login
RouteLogin ==
    /\ view = View("SignIn")
    /\ Login
    /\ path' = path
    /\ view' = AppRoutes(path, Truthy(user'))
    /\ UNCHANGED chatVars

\* handleLogout: logout(); navigate('/')
RouteLogout ==
    /\ view.kind = "view" /\ view.name \in LogoutViews
    /\ logout
    /\ path' = "/"
    /\ view' = AppRoutes(path', Truthy(user'))
    /\ UNCHANGED chatVars

RouteNext ==
    \/ RouteReload
    \/ RouteHydrate
    \/ Redirect
    \/ UserNavigate
    \/ RouteLogin
    \/ RouteLogout

\* a page load at any URL, with two accounts signed up earlier and the
\* session entry absent or left by an earlier login
InitRoute ==
    /\ localStorage \in [users : {JSONText(<<SeedBobNoAvatar, SeedAnn>>)},
                         user : {NoItem, JSONText(JSONstringifyObject(UserData(SeedAnn)))}]
    /\ user = Null
    /\ pc = "mounted"
    /\ last = Call("reload", NoArg, NoArg, NoArg, "done")
    /\ path \in Paths
    /\ view = AppRoutes(path, FALSE)
    /\ NoConversation

SpecRoute == InitRoute /\ [][RouteNext]_vars

ProtectedPaths == {"/hub", "/chat", "/analysis", "/report", "/presentation", "/dashboard"}
PublicPaths == {"/", "/signin", "/signup"}
ViewAt ==
    [p \in ProtectedPaths \cup PublicPaths |->
        CASE p = "/" -> "Landing" [] p = "/signin" -> "SignIn" [] p = "/signup" -> "SignUp"
          [] p = "/hub" -> "MainHub" [] p = "/chat" -> "Chat" [] p = "/analysis" -> "DataAnalysisPage"
          [] p = "/report" -> "ReportPage" [] p = "/presentation" -> "PresentationPage"
          [] p = "/dashboard" -> "DashboardPage"]

\* C11: while the application is up, what a guarded route shows is decided
\* by isAuthenticated alone: at a protected path the page is rendered when
\* isAuthenticated is true and a redirect to /signin otherwise; at a
\* public-only path the page is rendered when isAuthenticated is false and
\* a redirect to /hub otherwise.  So no protected page is on screen
\* unauthenticated and no public-only page authenticated.
C11_GuardsDecideByIsAuthenticated ==
    pc # "crashed" =>
        /\ path \in ProtectedPaths =>
             view = (IF isAuthenticated THEN [kind |-> "view", name |-> ViewAt[path]]
                     ELSE [kind |-> "navigate", name |-> "/signin"])
        /\ path \in PublicPaths =>
             view = (IF isAuthenticated THEN [kind |-> "navigate", name |-> "/hub"]
                     ELSE [kind |-> "view", name |-> ViewAt[path]])
        /\ (view.kind = "view" /\ view.name \in {ViewAt[p] : p \in ProtectedPaths}) => isAuthenticated
        /\ (view.kind = "view" /\ view.name \in {ViewAt[p] : p \in PublicPaths}) => ~isAuthenticated

\* right after a login on the sign-in page: the public-only guard redirects
C11_Witness ==
    /\ last.op = "login" /\ last.result = "true"
    /\ path = "/signin" /\ view = [kind |-> "navigate", name |-> "/hub"]

(***************************************************************************)
(* Part 3.  services/api.ts: the two analyze requests.                     *)
(***************************************************************************)
AgentTypes == {"auto", "pdf", "ppt", "dashboard", "data_analysis"}

\* variant: the agent kind is appended whatever it is
AgentFieldAlways(agentType) == << <<"agent_type", agentType>> >>

\* if (agentType !== 'auto') formData.append('agent_type', agentType)
AgentField(agentType) == IF agentType # "auto" THEN << <<"agent_type", agentType>> >> ELSE <<>>

\* variant: the file is left out of the form
uploadAndAnalyzeWithoutFile(file, prompt, agentType) ==
    [fn |-> "uploadAndAnalyze", method |-> "POST", url |-> "/analyze",
     body |-> << <<"prompt", prompt>> >> \o AgentField(agentType)]

\* the fetch of api.uploadAndAnalyze(file, prompt, agentType)
uploadAndAnalyze(file, prompt, agentType) ==
    [fn |-> "uploadAndAnalyze", method |-> "POST", url |-> "/analyze",
     body |-> << <<"file", file>>, <<"prompt", prompt>> >> \o AgentField(agentType)]

\* the fetch of api.analyzeWithExistingData(prompt, agentType)
analyzeWithExistingData(prompt, agentType) ==
    [fn |-> "analyzeWithExistingData", method |-> "POST", url |-> "/analyze",
     body |-> << <<"prompt", prompt>> >> \o AgentField(agentType)]

\* What the backend may answer.  An AnalysisResponse is an object; the
\* optional members are present or not.
Body(text, pdf, ppt, dashboard) ==
    JSONstringifyObject(<< <<"response", text>>, <<"pdf_path", pdf>>, <<"ppt_path", ppt>>,
                           <<"dashboard_path", dashboard>> >>)
Bodies ==
    { Body("Report ready.", "/reports/r1.pdf", Undefined, Undefined),
      Body("Report, slides and dashboard ready.", "/reports/r2.pdf", "/reports/r2.pptx",
           "/dashboards/d1.html") }
NoBody == <<>>
\* fetch rejects (network failure), or resolves with a status and a body
Answers ==
    {[net |-> "failed", ok |-> FALSE, body |-> NoBody], [net |-> "up", ok |-> FALSE, body |-> NoBody]}
    \cup {[net |-> "up", ok |-> TRUE, body |-> b] : b \in Bodies}

\* how the awaited api call ends for an answer: it throws an Error with a
\* message, or returns response.json()
Threw(message) == [threw |-> TRUE, message |-> message, value |-> <<>>]
Returned(value) == [threw |-> FALSE, message |-> "", value |-> value]
\* variant: the status of the response is not looked at
ApiOutcomeIgnoresStatus(answer) ==
    IF answer.net = "failed" THEN Threw("Failed to fetch")
    ELSE Returned(JSONparseObject(answer.body))
ApiOutcome(answer) ==
    IF answer.net = "failed" THEN Threw("Failed to fetch")
    ELSE IF ~answer.ok THEN Threw("Analysis request failed")
    ELSE Returned(JSONparseObject(answer.body))

\* how the awaited api.downloadReport(filename) ends: the body is handed on
\* as a Blob, unparsed
DownloadOutcome(answer) ==
    IF answer.net = "failed" THEN Threw("Failed to fetch")
    ELSE IF ~answer.ok THEN Threw("Download failed")
    ELSE Returned(answer.body)

\* ApiOutcome as a table over the answers
OutcomeOf == [answer \in Answers |-> ApiOutcome(answer)]

(***************************************************************************)
(* The conversation controller: Chat (path /chat) and AgentPage (the four  *)
(* agent pages).                                                           *)
(***************************************************************************)
\* a prompt is sent only while the list, once the prompt and every pending
\* answer are in it, holds at most this many messages
MaxMessages == 4

Files == {"sales.csv", "costs.csv"}
DashboardPrompt == "Create an interactive dashboard for this data"
\* what the user types: blanks only, or a prompt
Inputs == {"   ", DashboardPrompt}

\* String.prototype.trim on the strings of the model
Trim(s) == IF s = "   " THEN "" ELSE s

\* the kinds picked in the agent <select> of Chat in the runs explored
Selected == {"pdf"}

ConversationPaths == {"/chat", "/analysis", "/report", "/presentation", "/dashboard"}
IsChat == view = View("Chat")
\* the files the user picks from in the runs explored: both on an agent
\* page, the first on Chat
FilesAtHand == IF IsChat THEN {"sales.csv"} ELSE Files
\* what the user types in the runs explored: a prompt, and on an agent
\* page blanks only as well
InputsAtHand == IF IsChat THEN {DashboardPrompt} ELSE Inputs
\* the agentType prop of the exported agent pages
AgentTypeOf(p) ==
    CASE p = "/analysis" -> "data_analysis" [] p = "/report" -> "pdf"
      [] p = "/presentation" -> "ppt" [] p = "/dashboard" -> "dashboard" [] OTHER -> "auto"

UserMessage(content) ==
    [type |-> "user", content |-> content, pdfPath |-> Undefined, pptPath |-> Undefined,
     dashboardPath |-> Undefined]
\* variant: the message does not record the report path
AssistantMessageWithoutPdf(response) ==
    [type |-> "assistant", content |-> Get(response, "response"), pdfPath |-> Undefined,
     pptPath |-> Get(response, "ppt_path"), dashboardPath |-> Get(response, "dashboard_path")]
AssistantMessage(response) ==
    [type |-> "assistant", content |-> Get(response, "response"), pdfPath |-> Get(response, "pdf_path"),
     pptPath |-> Get(response, "ppt_path"), dashboardPath |-> Get(response, "dashboard_path")]
\* variant: the failure is shown without the error indicator
ErrorMessageBare(message) ==
    [type |-> "assistant", content |-> message, pdfPath |-> Undefined,
     pptPath |-> Undefined, dashboardPath |-> Undefined]
ErrorMessage(message) ==
    [type |-> "assistant", content |-> "Error: " \o message, pdfPath |-> Undefined,
     pptPath |-> Undefined, dashboardPath |-> Undefined]

\* a string or undefined/null used as a condition
Present(s) == s \notin {Undefined, NoPath, NoFile}

Remove(seq, i) == SubSeq(seq, 1, i - 1) \o SubSeq(seq, i + 1, Len(seq))

\* event: the last call of handleSendMessage (by the control that made it)
\* or of handleClearChat, and whether it went through; NoEvent after any
\* other step
Handled(handler, sent) == [handler |-> handler, sent |-> sent]

\* variant: the new message is put in front
Prepended(list, message) == <<message>> \o list

\* setMessages(prev => [...prev, message])
Appended(list, message) == Append(list, message)

\* handleSendMessage as rendered: it reads input, uploadedFile and the
\* agent kind of the last render.  queued is the value a setInput of the
\* caller, made just before the call, leaves in input when the handler
\* returns early (input itself when the caller made none).
handleSendMessage(handler, queued) ==
    IF Trim(input) = ""
    THEN /\ input' = queued
         /\ event' = Handled(handler, FALSE)
         /\ UNCHANGED <<messages, loading, uploadedFile, latest, inflight>>
    ELSE /\ Len(messages) + Len(inflight) + 2 <= MaxMessages
         /\ messages' = Appended(messages,
                UserMessage(IF Present(uploadedFile)
                            THEN "[clip] " \o uploadedFile \o "\n\n" \o input ELSE input))
         /\ input' = ""
         /\ loading' = TRUE
         /\ inflight' = Append(inflight,
                IF Present(uploadedFile) THEN uploadAndAnalyze(uploadedFile, input, selectedAgent)
                ELSE analyzeWithExistingData(input, selectedAgent))
         /\ event' = Handled(handler, TRUE)
         /\ UNCHANGED <<uploadedFile, latest>>

\* textarea onChange; the Chat textarea is disabled while loading
TypeInput ==
    /\ IsChat => ~loading
    /\ input' \in InputsAtHand
    /\ event' = NoEvent
    /\ UNCHANGED <<messages, loading, uploadedFile, latest, showDashboard, selectedAgent, inflight>>

\* handleDrop, handleFileChange
StageFile ==
    /\ uploadedFile' \in FilesAtHand
    /\ event' = NoEvent
    /\ UNCHANGED <<messages, input, loading, latest, showDashboard, selectedAgent, inflight>>

\* the remove button of the file preview
RemoveFile ==
    /\ Present(uploadedFile)
    /\ uploadedFile' = NoFile
    /\ event' = NoEvent
    /\ UNCHANGED <<messages, input, loading, latest, showDashboard, selectedAgent, inflight>>

\* the agent <select> of Chat, disabled while loading
SelectAgent ==
    /\ IsChat /\ ~loading
    /\ selectedAgent' \in Selected
    /\ event' = NoEvent
    /\ UNCHANGED <<messages, input, loading, uploadedFile, latest, showDashboard, inflight>>

\* the send button (type="submit"), disabled={loading || !input.trim()}
SubmitButton ==
    /\ ~(loading \/ Trim(input) = "")
    /\ handleSendMessage("submit", input)
    /\ UNCHANGED <<showDashboard, selectedAgent>>

\* Enter in the textarea of Chat, which is disabled while loading
EnterKeyChat ==
    /\ IsChat /\ ~loading
    /\ IF Trim(input) # "" /\ ~loading
       THEN handleSendMessage("enter", input)
       ELSE /\ event' = Handled("enter", FALSE)
            /\ UNCHANGED <<messages, input, loading, uploadedFile, latest, inflight>>
    /\ UNCHANGED <<showDashboard, selectedAgent>>

\* Enter in the textarea of AgentPage
EnterKeyAgentPage ==
    /\ ~IsChat
    /\ handleSendMessage("enter", input)
    /\ UNCHANGED <<showDashboard, selectedAgent>>

\* the Dashboard button of the Chat header
DashboardButton ==
    /\ IsChat
    /\ IF Present(latest.dashboard)
       THEN /\ showDashboard' = TRUE
            /\ event' = Handled("dashboardButton", FALSE)
            /\ UNCHANGED <<messages, input, loading, uploadedFile, latest, inflight>>
       ELSE /\ handleSendMessage("dashboardButton", DashboardPrompt)
            /\ UNCHANGED showDashboard
    /\ UNCHANGED selectedAgent

\* the close button of the dashboard preview
CloseDashboard ==
    /\ IsChat /\ showDashboard /\ Present(latest.dashboard)
    /\ showDashboard' = FALSE
    /\ event' = NoEvent
    /\ UNCHANGED <<messages, input, loading, uploadedFile, latest, selectedAgent, inflight>>

\* variant: the slide-deck pointer survives the reset
handleClearChatKeepsPpt(confirmed) ==
    /\ IsChat
    /\ IF confirmed
       THEN /\ messages' = <<>>
            /\ uploadedFile' = NoFile
            /\ latest' = [pdf |-> NoPath, ppt |-> latest.ppt, dashboard |-> NoPath]
            /\ event' = Handled("handleClearChat", TRUE)
       ELSE /\ event' = Handled("handleClearChat", FALSE)
            /\ UNCHANGED <<messages, uploadedFile, latest>>
    /\ UNCHANGED <<input, loading, showDashboard, selectedAgent, inflight>>

\* handleClearChat of Chat; confirmed is the answer to confirm(...)
handleClearChat(confirmed) ==
    /\ IsChat
    /\ IF confirmed
       THEN /\ messages' = <<>>
            /\ uploadedFile' = NoFile
            /\ latest' = [pdf |-> NoPath, ppt |-> NoPath, dashboard |-> NoPath]
            /\ event' = Handled("handleClearChat", TRUE)
       ELSE /\ event' = Handled("handleClearChat", FALSE)
            /\ UNCHANGED <<messages, uploadedFile, latest>>
    /\ UNCHANGED <<input, loading, showDashboard, selectedAgent, inflight>>
ClearChat == \E confirmed \in BOOLEAN : handleClearChat(confirmed)

\* variant: every pointer is set from the response, supplied or not
UpdateLatestAll(response) ==
    [pdf |-> Get(response, "pdf_path"), ppt |-> Get(response, "ppt_path"),
     dashboard |-> Get(response, "dashboard_path")]

\* if (response.x_path) setLatestX(response.x_path), for the three pointers
UpdateLatest(response) ==
    [pdf |-> IF Present(Get(response, "pdf_path")) THEN Get(response, "pdf_path") ELSE latest.pdf,
     ppt |-> IF Present(Get(response, "ppt_path")) THEN Get(response, "ppt_path") ELSE latest.ppt,
     dashboard |-> IF Present(Get(response, "dashboard_path")) THEN Get(response, "dashboard_path")
                   ELSE latest.dashboard]

\* variant: no finally block, busy stays as it is
ResumeLeavesBusy(i, answer) ==
    LET request == inflight[i]
        outcome == OutcomeOf[answer]
    IN  /\ inflight' = Remove(inflight, i)
        /\ IF outcome.threw
           THEN /\ messages' = Appended(messages, ErrorMessage(outcome.message))
                /\ event' = NoEvent
                /\ UNCHANGED <<uploadedFile, latest>>
           ELSE /\ messages' = Appended(messages, AssistantMessage(outcome.value))
                /\ uploadedFile' = IF request.fn = "uploadAndAnalyze" THEN NoFile ELSE uploadedFile
                /\ latest' = UpdateLatest(outcome.value)
                /\ event' = NoEvent
        /\ loading' = loading
        /\ UNCHANGED <<input, showDashboard, selectedAgent>>
\* the rest of handleSendMessage once the awaited call of inflight[i] ends
\* with answer: the try block after the await, or catch, then finally
Resume(i, answer) ==
    LET request == inflight[i]
        outcome == OutcomeOf[answer]
    IN  /\ inflight' = Remove(inflight, i)
        /\ IF outcome.threw
           THEN /\ messages' = Appended(messages, ErrorMessage(outcome.message))
                /\ event' = NoEvent
                /\ UNCHANGED <<uploadedFile, latest>>
           ELSE /\ messages' = Appended(messages, AssistantMessage(outcome.value))
                /\ uploadedFile' = IF request.fn = "uploadAndAnalyze" THEN NoFile ELSE uploadedFile
                /\ latest' = UpdateLatest(outcome.value)
                /\ event' = NoEvent
        /\ loading' = FALSE
        /\ UNCHANGED <<input, showDashboard, selectedAgent>>
Completion == \E i \in DOMAIN inflight, answer \in Answers : Resume(i, answer)

PageOnly(A) == A /\ UNCHANGED <<authVars, routeVars>>

ChatNext ==
    \/ PageOnly(TypeInput)
    \/ PageOnly(StageFile)
    \/ PageOnly(RemoveFile)
    \/ PageOnly(SelectAgent)
    \/ PageOnly(SubmitButton)
    \/ PageOnly(EnterKeyChat)
    \/ PageOnly(EnterKeyAgentPage)
    \/ PageOnly(DashboardButton)
    \/ PageOnly(CloseDashboard)
    \/ PageOnly(ClearChat)
    \/ PageOnly(Completion)

\* one of the five conversation pages just mounted for a signed-in user
InitChat ==
    /\ localStorage = [users |-> JSONText(<<SeedAnn>>),
                       user |-> JSONText(JSONstringifyObject(UserData(SeedAnn)))]
    /\ user = Obj(UserData(SeedAnn))
    /\ pc = "ready"
    /\ last = Call("hydrate", NoArg, NoArg, NoArg, "done")
    /\ path \in ConversationPaths
    /\ view = AppRoutes(path, isAuthenticated)
    /\ messages = <<>>
    /\ input = ""
    /\ loading = FALSE
    /\ uploadedFile = NoFile
    /\ latest = [pdf |-> NoPath, ppt |-> NoPath, dashboard |-> NoPath]
    /\ showDashboard = FALSE
    /\ selectedAgent = AgentTypeOf(path)
    /\ inflight = <<>>
    /\ event = NoEvent

SpecChat == InitChat /\ [][ChatNext]_vars

\* the backend call of every request ends: fetch resolves or rejects
SpecChatLive == InitChat /\ [][ChatNext]_vars /\ WF_vars(PageOnly(Completion))

(***************************************************************************)
(* Properties of the conversation controller.                              *)
(***************************************************************************)
\* the controls that call handleSendMessage
SendControls == {"submit", "enter", "dashboardButton"}
\* the step just taken dispatched a request
SendStep == event'.handler \in SendControls /\ event'.sent
\* the step just taken was a confirmed reset
ResetStep == event'.handler = "handleClearChat" /\ event'.sent
Last(seq) == seq[Len(seq)]
IsPrefix(s, t) == Len(s) <= Len(t) /\ SubSeq(t, 1, Len(s)) = s
Cleared == [pdf |-> NoPath, ppt |-> NoPath, dashboard |-> NoPath]

\* C12: at most one request is in flight at any time, and a send action
\* (submit button, Enter key, Dashboard button) taken while busy dispatches
\* no request and appends no message.
C12_OneRequestAtATime ==
    /\ [](Len(inflight) <= 1)
    /\ [][(loading /\ event'.handler \in SendControls)
          => (inflight' = inflight /\ messages' = messages)]_vars

\* C13: a send with no staged file dispatches analyzeWithExistingData with
\* the prompt and the agent kind; a send with a staged file dispatches
\* uploadAndAnalyze with that file, the prompt and the agent kind.
C13_VariantChosenByStagedFile ==
    [][SendStep =>
        /\ Len(inflight') = Len(inflight) + 1
        /\ SubSeq(inflight', 1, Len(inflight)) = inflight
        /\ LET request == Last(inflight')
           IN  /\ request.fn = IF uploadedFile = NoFile THEN "analyzeWithExistingData"
                               ELSE "uploadAndAnalyze"
               /\ Get(request.body, "file") = IF uploadedFile = NoFile THEN Undefined ELSE uploadedFile
               /\ Get(request.body, "prompt") = input
               /\ Get(request.body, "agent_type") =
                      IF selectedAgent = "auto" THEN Undefined ELSE selectedAgent
      ]_vars

\* a file variant and a no-file variant, sent one after the other, are both
\* on their way
C13_Witness ==
    /\ event.handler \in SendControls /\ event.sent
    /\ Len(inflight) = 2
    /\ inflight[1].fn = "uploadAndAnalyze" /\ Get(inflight[1].body, "file") = "costs.csv"
    /\ inflight[2].fn = "analyzeWithExistingData"

\* C14: a send that includes a staged file leaves the pending upload empty
\* at once, in the step that dispatches the request.
C14_UploadClearedAtSendTime ==
    [][(SendStep /\ uploadedFile # NoFile) => uploadedFile' = NoFile]_vars

\* the awaited call of inflight[i] ended with answer and the handler ran on
Answered(i, answer) == i \in DOMAIN inflight /\ Resume(i, answer)
\* the step just taken ended an awaited call
CompletionStep == Len(inflight') = Len(inflight) - 1
Failures == {a \in Answers : a.net = "failed" \/ ~a.ok}
Successes == Answers \ Failures
\* the list grew by one message, at its end
OneAppended == Len(messages') = Len(messages) + 1 /\ SubSeq(messages', 1, Len(messages)) = messages
HasErrorIndicator(content) ==
    content \in {"Error: Failed to fetch", "Error: Analysis request failed"}

\* C15: the pending upload becomes empty only by an explicit removal, by a
\* confirmed reset, or by the successful answer to a send that carried that
\* file; a failed send leaves the pending upload as it is.
C15_UploadEmptiedOnlyBy ==
    [][/\ (uploadedFile # NoFile /\ uploadedFile' = NoFile) =>
            \/ ResetStep
            \/ (messages' = messages /\ inflight' = inflight /\ event' = NoEvent)
            \/ \E i \in DOMAIN inflight, a \in Successes :
                   Answered(i, a) /\ Get(inflight[i].body, "file") = uploadedFile
       /\ CompletionStep =>
            \A i \in DOMAIN inflight, a \in Failures : Answered(i, a) => uploadedFile' = uploadedFile
      ]_vars

\* C16: a failed analyze call (network failure or non-success status)
\* appends exactly one assistant message with the error indicator, leaves
\* the three latest-artifact pointers unchanged and clears busy.
C16_FailureAppendsOneError ==
    [][CompletionStep => \A i \in DOMAIN inflight, a \in Failures :
          Answered(i, a) =>
              /\ OneAppended
              /\ Last(messages').type = "assistant"
              /\ HasErrorIndicator(Last(messages').content)
              /\ latest' = latest
              /\ ~loading'
      ]_vars

\* a failure after an answer that set the report pointer
C16_Witness ==
    /\ messages # <<>> /\ HasErrorIndicator(Last(messages).content)
    /\ latest.pdf = "/reports/r1.pdf"
    /\ ~loading

\* C17: a successful answer sets each pointer the response supplies a path
\* for, leaves each other pointer at its prior value, appends one assistant
\* message with the response text and artifacts, and clears busy.
C17_SuccessUpdatesSuppliedPointers ==
    [][CompletionStep => \A i \in DOMAIN inflight, a \in Successes :
          Answered(i, a) =>
              /\ latest'.pdf = IF HasKey(a.body, "pdf_path") THEN Get(a.body, "pdf_path") ELSE latest.pdf
              /\ latest'.ppt = IF HasKey(a.body, "ppt_path") THEN Get(a.body, "ppt_path") ELSE latest.ppt
              /\ latest'.dashboard = IF HasKey(a.body, "dashboard_path")
                                     THEN Get(a.body, "dashboard_path") ELSE latest.dashboard
              /\ OneAppended
              /\ Last(messages').type = "assistant"
              /\ Last(messages').content = Get(a.body, "response")
              /\ Last(messages').pdfPath = Get(a.body, "pdf_path")
              /\ Last(messages').pptPath = Get(a.body, "ppt_path")
              /\ Last(messages').dashboardPath = Get(a.body, "dashboard_path")
              /\ ~loading'
      ]_vars

\* the last answer supplied a report only: the report pointer is
\* overwritten, the slides and dashboard pointers of the earlier answer stay
C17_Witness ==
    /\ messages # <<>> /\ Last(messages).pdfPath = "/reports/r1.pdf"
    /\ latest = [pdf |-> "/reports/r1.pdf", ppt |-> "/reports/r2.pptx",
                 dashboard |-> "/dashboards/d1.html"]
    /\ ~loading

\* C18: a confirmed reset empties the message list, the pending upload and
\* the three pointers in one step; a declined one changes nothing.
C18_ResetIsAtomic ==
    [][event'.handler = "handleClearChat" =>
          IF event'.sent
          THEN messages' = <<>> /\ uploadedFile' = NoFile /\ latest' = Cleared
          ELSE UNCHANGED <<messages, uploadedFile, latest, input, loading, showDashboard,
                           selectedAgent, inflight>>
      ]_vars

\* a confirmed reset while a request is on its way
C18_Witness ==
    /\ event = Handled("handleClearChat", TRUE)
    /\ inflight # <<>> /\ loading
    /\ messages = <<>> /\ uploadedFile = NoFile /\ latest = Cleared

\* C19: every step other than a confirmed reset leaves the previous list a
\* prefix of the new one.
C19_AppendOnlyBetweenResets ==
    [][ResetStep \/ IsPrefix(messages, messages')]_vars

\* a failure in the middle of the history, which went on after it
C19_Witness ==
    /\ Len(messages) = 4
    /\ messages[1].type = "user" /\ HasErrorIndicator(messages[2].content)
    /\ messages[3].type = "user" /\ messages[4].type = "assistant"

\* C20: for each agent kind and both request variants, the request has an
\* agent_type field exactly when the kind is not 'auto', and then with the
\* kind as its value; so have the requests dispatched.
C20_AgentTypeOmittedForAuto ==
    /\ \A kind \in AgentTypes, file \in Files, prompt \in {DashboardPrompt} :
          \A request \in {uploadAndAnalyze(file, prompt, kind), analyzeWithExistingData(prompt, kind)} :
              /\ HasKey(request.body, "agent_type") <=> kind # "auto"
              /\ kind # "auto" => Get(request.body, "agent_type") = kind
    /\ \A i \in DOMAIN inflight :
          /\ Get(inflight[i].body, "agent_type") \in (AgentTypes \ {"auto"}) \cup {Undefined}
          /\ path # "/chat" =>
                 (/\ HasKey(inflight[i].body, "agent_type") <=> AgentTypeOf(path) # "auto"
                  /\ Get(inflight[i].body, "agent_type") = AgentTypeOf(path))

\* requests of both kinds on their way: one sent as 'auto', one as 'pdf'
C20_Witness ==
    /\ Len(inflight) = 2
    /\ ~HasKey(inflight[1].body, "agent_type")
    /\ Get(inflight[2].body, "agent_type") = "pdf"

\* C21: uploadAndAnalyze, analyzeWithExistingData and downloadReport end
\* with an error and no result whenever the backend answers with a
\* non-success status, and return the payload only on a success status; so
\* every answer shown on the page is an error or the text of a payload.
C21_ApiFailsOnNonSuccess ==
    /\ \A i \in DOMAIN messages :
          messages[i].type = "assistant" =>
              \/ HasErrorIndicator(messages[i].content)
              \/ \E b \in Bodies : messages[i].content = Get(b, "response")
    /\ \A answer \in Answers :
        /\ (answer.net = "up" /\ ~answer.ok) =>
               /\ ApiOutcome(answer) = Threw("Analysis request failed")
               /\ DownloadOutcome(answer) = Threw("Download failed")
        /\ ~ApiOutcome(answer).threw =>
               (answer.net = "up" /\ answer.ok /\ ApiOutcome(answer).value = JSONparseObject(answer.body))
        /\ ~DownloadOutcome(answer).threw =>
               (answer.net = "up" /\ answer.ok /\ DownloadOutcome(answer).value = answer.body)
        /\ (answer.net = "up" /\ answer.ok) => (~ApiOutcome(answer).threw /\ ~DownloadOutcome(answer).threw)

\* the page shows the error of a non-success status after a payload of a
\* success status
C21_Witness ==
    /\ Len(messages) = 4
    /\ messages[2].content = "Report ready."
    /\ messages[4].content = "Error: Analysis request failed"

\* C22: if every backend call ends, busy is cleared again after each send.
C22_BusyEventuallyCleared == loading ~> ~loading

\* idle again, with the answer to the one prompt sent in the list
C22_Witness ==
    /\ ~loading /\ inflight = <<>>
    /\ Len(messages) = 2 /\ messages[1].type = "user" /\ messages[2].type = "assistant"

(***************************************************************************)
(* The sign-up page: SignUp.handleSubmit over the facade and the router.   *)
(***************************************************************************)
\* what the four fields may hold when the form is submitted
FormNames == {"", "Bo B"}
FormEmails == {"", "ann.x.io", "ann@x.io", "bob@x.io"}
FormPasswords == {"", "abc", "secret"}

\* String.prototype.length on the passwords of the model
Length(s) == CASE s = "" -> 0 [] s = "abc" -> 3 [] OTHER -> 6
\* /^[^\s@]+@[^\s@]+\.[^\s@]+$/.test(email) on the emails of the model
emailRegexTest(email) == email \in {"ann@x.io", "Ann@x.io", "bob@x.io"}

\* variant: the two passwords are not compared
ValidationErrorNoMatch(name, email, password, confirmPassword) ==
    IF name = "" \/ email = "" \/ password = "" \/ confirmPassword = ""
    THEN "Please fill in all fields"
    ELSE IF Length(password) < 6 THEN "Password must be at least 6 characters"
    ELSE IF ~emailRegexTest(email) THEN "Please enter a valid email"
    ELSE ""

\* the checks of handleSubmit before the call of signup: the message of the
\* first one that fails, "" when all pass
ValidationError(name, email, password, confirmPassword) ==
    IF name = "" \/ email = "" \/ password = "" \/ confirmPassword = ""
    THEN "Please fill in all fields"
    ELSE IF Length(password) < 6 THEN "Password must be at least 6 characters"
    ELSE IF password # confirmPassword THEN "Passwords do not match"
    ELSE IF ~emailRegexTest(email) THEN "Please enter a valid email"
    ELSE ""

\* event after a submit of the form: whether signup was called, and the
\* form-level message left by setError
Submitted(called, error) == [handler |-> "handleSubmit", sent |-> called, error |-> error]

\* SignUp.handleSubmit with the four fields as typed.  On success the
\* handler's navigate('/chat') and the <Navigate to="/hub"> that
\* PublicRoute renders once the user is set both run; either may be last.
handleSubmit(name, email, password, confirmPassword) ==
    /\ pc = "ready"
    /\ view = View("SignUp")
    /\ LET error == ValidationError(name, email, password, confirmPassword) IN
       IF error # ""
       THEN /\ event' = Submitted(FALSE, error)
            /\ UNCHANGED <<authVars, routeVars>>
       ELSE /\ signup(name, email, password)
            /\ IF last'.result = "true"
               THEN /\ path' \in {"/chat", "/hub"}
                    /\ event' = Submitted(TRUE, "")
               ELSE /\ path' = path
                    /\ event' = Submitted(TRUE, IF last'.result = "false"
                                                THEN "Email already exists" ELSE "")
            /\ view' = AppRoutes(path', Truthy(user'))
    /\ UNCHANGED <<messages, input, loading, uploadedFile, latest, showDashboard, selectedAgent,
                   inflight>>
SubmitSignUp ==
    \E name \in FormNames, email \in FormEmails, password \in FormPasswords,
       confirmPassword \in FormPasswords : handleSubmit(name, email, password, confirmPassword)

SignUpNext ==
    \/ RouteReload
    \/ RouteHydrate
    \/ Redirect
    \/ UserNavigate
    \/ RouteLogin
    \/ RouteLogout
    \/ SubmitSignUp

\* a page load at any URL, with one account signed up earlier
InitSignUp ==
    /\ localStorage \in [users : {JSONText(<<SeedAnn>>)},
                         user : {NoItem, JSONText(JSONstringifyObject(UserData(SeedAnn)))}]
    /\ user = Null
    /\ pc = "mounted"
    /\ last = Call("reload", NoArg, NoArg, NoArg, "done")
    /\ path \in Paths
    /\ view = AppRoutes(path, FALSE)
    /\ NoConversation

SpecSignUp == InitSignUp /\ [][SignUpNext]_vars

\* C23: a submission of the sign-up form with a field missing, a password
\* shorter than 6 characters, a password different from confirmPassword or
\* a malformed email does not call signup and leaves the credential store,
\* the session and the persisted session entry unchanged.
C23_InvalidSignUpRejectedEarly ==
    [][\A name \in FormNames, email \in FormEmails, password \in FormPasswords,
          confirmPassword \in FormPasswords :
          (/\ \/ "" \in {name, email, password, confirmPassword}
              \/ password = "abc"
              \/ password # confirmPassword
              \/ email = "ann.x.io"
           /\ handleSubmit(name, email, password, confirmPassword))
          => (last' = last /\ ~event'.sent /\ event'.error # "" /\ UNCHANGED <<localStorage, user>>)
      ]_vars

\* a rejected submission after one that signed a new user up
C23_Witness ==
    /\ event = Submitted(FALSE, "Passwords do not match")
    /\ Len(StoreRecords) = 2

\* C24: no step removes or changes a record of the credential store or
\* makes the store shorter, and only a signup that returns true changes the
\* stored 'users' entry.
C24_StoreNeverPruned ==
    [][/\ Len(StoreRecords) <= Len(StoreRecords')
       /\ SubSeq(StoreRecords', 1, Len(StoreRecords)) = StoreRecords
       /\ localStorage'.users # localStorage.users => (last'.op = "signup" /\ last'.result = "true")
      ]_vars

\* a logout after two signups: both records are still stored
C24_Witness ==
    /\ last.op = "logout"
    /\ Len(StoreRecords) = 2 /\ localStorage.user = NoItem


\* the user message handleSendMessage appended when it dispatched request
AskedBy(request) ==
    UserMessage(IF Present(Get(request.body, "file"))
                THEN "[clip] " \o Get(request.body, "file") \o "\n\n" \o Get(request.body, "prompt")
                ELSE Get(request.body, "prompt"))

\* C25: submitting a non-empty prompt appends the user message and sets
\* busy in the step that dispatches the request, so the user message is in
\* the list, before the answer, when the answer to that request is
\* appended; submitting an empty or blank prompt appends no message,
\* dispatches no request and leaves busy, the pending upload and the three
\* pointers as they are.
C25_SendAppendsThenAnswerFollows ==
    [][/\ SendStep =>
            /\ OneAppended /\ Last(messages') = AskedBy(Last(inflight'))
            /\ Len(inflight') = Len(inflight) + 1
            /\ loading'
       /\ (event'.handler \in SendControls /\ Trim(input) = "") =>
            UNCHANGED <<messages, inflight, loading, uploadedFile, latest>>
       /\ CompletionStep =>
            \A i \in DOMAIN inflight, a \in Answers :
                Answered(i, a) => \E k \in 1..Len(messages) : messages[k] = AskedBy(inflight[i])
      ]_vars


\* C26: in every reachable state busy is true exactly when a request of the
\* page is in flight.
C26_BusyIffInFlight == loading <=> inflight # <<>>

\* C27: a file staged while a request is in flight stays staged when the
\* call of that request ends, with a response or with a failure: the end
\* of a send that did not carry the staged file leaves the pending upload
\* as it is.
C27_LaterStagedFileSurvives ==
    [][CompletionStep =>
        \A i \in DOMAIN inflight, a \in Answers :
            (Answered(i, a) /\ Present(uploadedFile) /\ Get(inflight[i].body, "file") # uploadedFile)
                => uploadedFile' = uploadedFile
      ]_vars

\* C28: after a confirmed reset in Chat the message list and the three
\* pointers stay empty until the next send: the end of a call dispatched
\* before the reset appends no message and sets no pointer.
C28_EmptyAfterResetUntilSend ==
    [][(event = Handled("handleClearChat", TRUE) /\ ~SendStep)
        => (messages' = <<>> /\ latest' = Cleared)]_vars


\* the path of kind field carried by the last message of the list that carries one,
\* null when no message does
LastCarried(field) ==
    LET carriers == {k \in 1..Len(messages) : Present(messages[k][field])}
    IN  IF carriers = {} THEN NoPath
        ELSE messages[CHOOSE k \in carriers : \A j \in carriers : j <= k][field]

\* C29: in every reachable state each of the three pointers equals the
\* path of its kind carried by the last message that carries one, and is
\* empty when no message of the list carries one.
C29_PointersAgreeWithMessages ==
    /\ latest.pdf = LastCarried("pdfPath")
    /\ latest.ppt = LastCarried("pptPath")
    /\ latest.dashboard = LastCarried("dashboardPath")

\* a full answer, then one with a report only: the report pointer has
\* moved on, the deck and dashboard pointers are those of the older message
C29_Witness ==
    /\ Len(messages) = 4
    /\ messages[2].pdfPath = "/reports/r2.pdf" /\ messages[4].pdfPath = "/reports/r1.pdf"
    /\ latest.pdf = "/reports/r1.pdf" /\ latest.ppt = messages[2].pptPath
    /\ latest.dashboard = messages[2].dashboardPath


\* C30: no guard decides on a facade that has not hydrated: while the
\* session entry holds a user (a page load with a valid persisted session,
\* no logout since), no protected route renders the redirect to /signin.
C30_NoRedirectWithPersistedSession ==
    (pc # "crashed" /\ localStorage.user.kind = "json" /\ path \in ProtectedPaths)
        => view # NavigateTo("/signin")

====
